---- MODULE Spec2Model ----
(***************************************************************************)
(* Model of RustAnalyzer (src/src/rust_analyzer.py): the single-image      *)
(* path analyze / _parse_single_response, the multi-image path             *)
(* analyze_multiple / _parse_multi_response and the fallback ranking       *)
(* _fallback_individual_analysis.  The vision client (VisionAPIBase) is an *)
(* external collaborator: each of its calls either raises or returns a     *)
(* text, which is modelled by what json.loads makes of it.                 *)
(***************************************************************************)
EXTENDS Integers, Sequences, FiniteSets, TLC

\* ------------------------------------------------------------------ bounds
\* Largest number of submitted images.
MaxImages == 2
\* Largest number of entries of a joint response array.
MaxEntries == 2
\* Largest integer rust_score a response carries.
MaxScore == 1
\* Number of negative rust_score values a response may carry.
NegScores == 2
\* Largest ordinary rank a joint response carries.
MaxRank == MaxImages

\* The sort key of an entry without rank (rust_analyzer.py line 276).
MissingRankKey == 999

\* ------------------------------------------------------------ JSON values
\* A decoded JSON value, or the absence of a key: t is the Python type,
\* v the integer (int), truth value (bool) or length class (str).
Absent == [t |-> "absent", v |-> 0]
Null == [t |-> "null", v |-> 0]
IntV(k) == [t |-> "int", v |-> k]
BoolV(b) == [t |-> "bool", v |-> IF b THEN 1 ELSE 0]
\* A non-empty string.
StrV == [t |-> "str", v |-> 1]

\* dict.get(key): an absent key reads as None.
Get(x) == IF x = Absent THEN Null ELSE x
\* dict.get(key, default).
GetDefault(x, d) == IF x = Absent THEN d ELSE x
\* Python truthiness of a value.
Truthy(x) == x.t \in {"int", "bool", "str"} /\ x.v # 0
\* Python's `x or d`.
OrElse(x, d) == IF Truthy(x) THEN x ELSE d
\* Whether `a < b` is defined (int and bool compare; str compares with str).
Comparable(a, b) ==
    \/ a.t \in {"int", "bool"} /\ b.t \in {"int", "bool"}
    \/ a.t = "str" /\ b.t = "str"
\* a < b for comparable values.
Less(a, b) == a.v < b.v

\* ---------------------------------------------------------------- results
\* error_message texts (None and the three messages of the single path).
MsgNone == "None"
MsgAnalysisError == "analysis_error"
MsgNotRod == "not_a_metal_rod"
MsgParseFailure == "parse_failure"

\* RustAnalysisResult: fields not named default to None.
RustAnalysisResult(rod, grade, score, rank, msg) ==
    [is_metal_rod |-> rod, rust_grade |-> grade, rust_score |-> score,
     rank |-> rank, error_message |-> msg]

\* ------------------------------------------------- single-image responses
\* What analyze_image does: raise, or return a text that json.loads
\* rejects, decodes to a non-object, or decodes to an object.
RodVals == {Absent, Null, BoolV(FALSE), BoolV(TRUE), StrV}
\* rust_score is passed through unvalidated: any integer, a string, or no key.
ScoreVals == {Absent, StrV} \cup {IntV(k) : k \in (0 - NegScores)..MaxScore}
GradeVals == {Absent, StrV}
SingleObjects ==
    [kind : {"object"}, is_metal_rod : RodVals, rust_score : ScoreVals,
     rust_grade : GradeVals]
SingleOther ==
    [kind : {"raises", "undecodable", "nonobject"}, is_metal_rod : {Absent},
     rust_score : {Absent}, rust_grade : {Absent}]
SingleResponses == SingleObjects \cup SingleOther

\* _parse_single_response: "JSONDecodeError" is caught inside; on a
\* non-object data.get raises AttributeError, which escapes.
ParseSingleRaises(resp) == resp.kind = "nonobject"
\* Mutant of IsRod: an absent is_metal_rod key counts as true.
IsRod_DefaultTrue(resp) == Truthy(GetDefault(resp.is_metal_rod, BoolV(TRUE)))
\* The boolean gate of line 179.
IsRod(resp) == Truthy(GetDefault(resp.is_metal_rod, BoolV(FALSE)))
\* Mutant of ParseSingleResponse: the non-rod result keeps the score.
ParseSingleResponse_KeepsScore(resp) ==
    IF resp.kind = "undecodable"
    THEN RustAnalysisResult(FALSE, Null, Null, Null, MsgParseFailure)
    ELSE IF ~IsRod(resp)
    THEN RustAnalysisResult(FALSE, Null, Get(resp.rust_score), Null, MsgNotRod)
    ELSE RustAnalysisResult(TRUE, Get(resp.rust_grade), Get(resp.rust_score),
                            Null, MsgNone)
ParseSingleResponse(resp) ==
    IF resp.kind = "undecodable"
    THEN RustAnalysisResult(FALSE, Null, Null, Null, MsgParseFailure)
    ELSE IF ~IsRod(resp)
    THEN RustAnalysisResult(FALSE, Null, Null, Null, MsgNotRod)
    ELSE RustAnalysisResult(TRUE, Get(resp.rust_grade), Get(resp.rust_score),
                            Null, MsgNone)

\* analyze: every Exception of the call or of the parser becomes the
\* error result.
AnalyzeResult(resp) ==
    IF resp.kind = "raises" \/ ParseSingleRaises(resp)
    THEN RustAnalysisResult(FALSE, Null, Null, Null, MsgAnalysisError)
    ELSE ParseSingleResponse(resp)

\* -------------------------------------------------------- sorting (stable)
\* list.sort raises TypeError when two keys cannot be compared.
SortRaises(keys) ==
    \E i, j \in 1..Len(keys) : ~Comparable(keys[i], keys[j])
\* Whether element i is placed before element j by a stable sort of the
\* keys (ascending, or descending with reverse=True, which keeps the
\* submitted order of equal keys).
Precedes(keys, i, j, reverse) ==
    \/ IF reverse THEN Less(keys[j], keys[i]) ELSE Less(keys[i], keys[j])
    \/ ~Less(keys[i], keys[j]) /\ ~Less(keys[j], keys[i]) /\ i < j
\* The index of the element a stable sort puts at each position.
SortOrder(keys, reverse) ==
    [p \in 1..Len(keys) |->
        CHOOSE i \in 1..Len(keys) :
            Cardinality({j \in 1..Len(keys) : Precedes(keys, j, i, reverse)})
                = p - 1]
SortBy(seq, keys, reverse) ==
    [p \in 1..Len(seq) |-> seq[SortOrder(keys, reverse)[p]]]

\* ---------------------------------------------------- joint-call responses
\* Submitted images: the identifier (file name) of the image at position i.
Filename(i) == 100 + i
Images(n) == [i \in 1..n |-> Filename(i)]

\* image_index: no key, an integer (0 and MaxImages + 1 are out of range
\* for every list), or a value that is no integer (a string stands for it).
IndexVals == {Absent, StrV} \cup {IntV(k) : k \in 0..(MaxImages + 1)}
\* rank: no key, a string, 0, an ordinary rank, or an integer above the
\* key of a missing rank.
RankVals ==
    {Absent, StrV} \cup {IntV(k) : k \in 0..MaxRank}
        \cup {IntV(MissingRankKey + 1)}
\* An entry of the decoded list: an object with its keys, or anything else.
ObjectEntries ==
    [kind : {"object"}, image_index : IndexVals, rank : RankVals,
     is_metal_rod : {Absent}]
NonObjectEntry ==
    [kind |-> "nonobject", image_index |-> Absent, rank |-> Absent,
     is_metal_rod |-> Absent]
Entries == ObjectEntries \cup {NonObjectEntry}
SeqsUpTo(S, n) == UNION {[1..k -> S] : k \in 0..n}
\* What analyze_multiple_images does: raise, or return a text that
\* json.loads rejects ("undecodable"), decodes to a value that cannot be
\* iterated ("scalar"), to an object (iterated by its keys, which are
\* strings) or to an array.
JointOther ==
    [kind : {"raises", "undecodable", "scalar"}, entries : {<<>>}]
JointObjects == [kind : {"object"}, entries : SeqsUpTo({NonObjectEntry}, 1)]
JointArrays == [kind : {"array"}, entries : SeqsUpTo(Entries, MaxEntries)]
JointResponses == JointOther \cup JointObjects \cup JointArrays
\* Array entries that carry an is_metal_rod key the prompt does not ask
\* for (the single-image responses have one), with an image_index and a
\* rank that the prompt allows or no such key.
RodEntryVals == {Absent, BoolV(FALSE), BoolV(TRUE)}
RodEntries ==
    [kind : {"object"},
     image_index : {Absent} \cup {IntV(k) : k \in 1..MaxImages},
     rank : {Absent} \cup {IntV(k) : k \in 1..MaxRank},
     is_metal_rod : RodEntryVals]
JointRodArrays == [kind : {"array"}, entries : SeqsUpTo(RodEntries, MaxEntries)]
JointRodResponses == JointOther \cup JointRodArrays

\* The loop body of _parse_multi_response on one entry: the exception it
\* raises, if any.
EntryRaises(data) ==
    IF data.kind = "nonobject" THEN "AttributeError"
    ELSE IF GetDefault(data.image_index, IntV(1)).t \notin {"int", "bool"}
    THEN "TypeError"
    ELSE "none"
\* Mutant of ImgIdx: image_index taken as 0-based.
ImgIdx_ZeroBased(data) == GetDefault(data.image_index, IntV(1)).v
\* img_idx of line 248.
ImgIdx(data) == GetDefault(data.image_index, IntV(1)).v - 1
\* Mutant of InRange: the first image is out of range.
InRange_FromOne(data, images) == 1 <= ImgIdx(data) /\ ImgIdx(data) < Len(images)
\* The bounds test of line 249.
InRange(data, images) == 0 <= ImgIdx(data) /\ ImgIdx(data) < Len(images)
\* Mutant of EntryResult: the entry's is_metal_rod is read as the
\* single-image parser reads it.
EntryResult_GatesRod(data, images) ==
    [file |-> images[ImgIdx(data) + 1],
     result |-> IF Truthy(GetDefault(data.is_metal_rod, BoolV(TRUE)))
                THEN RustAnalysisResult(TRUE, Null, Null, Get(data.rank), MsgNone)
                ELSE RustAnalysisResult(FALSE, Null, Null, Get(data.rank), MsgNotRod)]
\* The pair appended for an in-range entry, lines 250-273.
EntryResult(data, images) ==
    [file |-> images[ImgIdx(data) + 1],
     result |-> RustAnalysisResult(TRUE, Null, Null, Get(data.rank), MsgNone)]
\* Mutant of RankKey: a missing rank is keyed 0.
RankKey_MissingFirst(item) == OrElse(item.result.rank, IntV(0))
\* The sort key of line 276.
RankKey(item) == OrElse(item.result.rank, IntV(MissingRankKey))

RECURSIVE LoopResults(_, _)
LoopResults(entries, images) ==
    IF entries = <<>> THEN <<>>
    ELSE LET rest == LoopResults(Tail(entries), images)
         IN IF InRange(Head(entries), images)
            THEN <<EntryResult(Head(entries), images)>> \o rest
            ELSE rest
\* The first exception of the loop over the entries.
RECURSIVE LoopRaises(_)
LoopRaises(entries) ==
    IF entries = <<>> THEN "none"
    ELSE IF EntryRaises(Head(entries)) # "none"
    THEN EntryRaises(Head(entries))
    ELSE LoopRaises(Tail(entries))

\* The try block of _parse_multi_response: the exception it raises
\* ("none" when it returns) and the list it returns.
ParseMultiTry(resp, images) ==
    IF resp.kind = "undecodable"
    THEN [exc |-> "JSONDecodeError", results |-> <<>>]
    ELSE IF resp.kind = "scalar"
    THEN [exc |-> "TypeError", results |-> <<>>]
    ELSE IF LoopRaises(resp.entries) # "none"
    THEN [exc |-> LoopRaises(resp.entries), results |-> <<>>]
    ELSE LET rs == LoopResults(resp.entries, images)
             keys == [i \in 1..Len(rs) |-> RankKey(rs[i])]
         IN IF SortRaises(keys)
            THEN [exc |-> "TypeError", results |-> <<>>]
            ELSE [exc |-> "none", results |-> SortBy(rs, keys, FALSE)]
\* The exceptions the except clause of line 279 catches.
ParserCatches(exc) == exc \in {"JSONDecodeError", "KeyError", "IndexError"}

\* ----------------------------------------------------------- the fallback
\* Mutant of FallbackKey: a non-rod image gets the key of a score of 0.
FallbackKey_NonRodZero(item) ==
    IF ~item.result.is_metal_rod THEN IntV(0)
    ELSE OrElse(item.result.rust_score, IntV(0))
\* sort_key of lines 292-296.
FallbackKey(item) ==
    IF ~item.result.is_metal_rod THEN IntV(-1)
    ELSE OrElse(item.result.rust_score, IntV(0))
FallbackKeys(rs) == [i \in 1..Len(rs) |-> FallbackKey(rs[i])]
\* Mutant of AssignRanks: the rank loop also clears rust_score.
AssignRanks_ResetsScore(rs) ==
    [p \in 1..Len(rs) |->
        [rs[p] EXCEPT !.result.rank = IntV(p), !.result.rust_score = Null]]
\* The rank loop of lines 301-302.
AssignRanks(rs) ==
    [p \in 1..Len(rs) |-> [rs[p] EXCEPT !.result.rank = IntV(p)]]
\* Mutant of FallbackRanked: the sort is ascending (no reverse=True).
FallbackRanked_Ascending(rs) ==
    AssignRanks(SortBy(rs, FallbackKeys(rs), FALSE))
\* Sort and rank of the collected results.
FallbackRanked(rs) == AssignRanks(SortBy(rs, FallbackKeys(rs), TRUE))

\* ------------------------------------------------------------------ state
VARIABLES
    op,          \* the method the caller invokes: "analyze" or "analyze_multiple"
    images,      \* the submitted list of image identifiers
    pc,          \* where the call is: "start", "parse", "fallback", "done", "raised"
    calls,       \* the vision-client calls made so far, in order
    response,    \* the joint response being parsed, kept when the parser returns
    last_single, \* the latest response of analyze_image
    error_msg,   \* the failure handed to the fallback (str(e))
    handler,     \* the except clause running the fallback: "parser" or "outer"
    acc,         \* the fallback's results list while it is being built
    results,     \* the list returned to the caller
    parser_exc,  \* the exception that left _parse_multi_response, if any
    fallbacks    \* the number of times the fallback was entered

vars ==
    <<op, images, pc, calls, response, last_single, error_msg, handler, acc,
      results, parser_exc, fallbacks>>

NoResponse == [kind |-> "none", entries |-> <<>>]
NoSingle ==
    [kind |-> "none", is_metal_rod |-> Absent, rust_score |-> Absent,
     rust_grade |-> Absent]
SingleCall(file) == [api |-> "analyze_image", images |-> <<file>>]
\* Mutant of JointCallOf: the images are sent in reverse order.
JointCallOf_Reversed(imgs) ==
    [api |-> "analyze_multiple_images",
     images |-> [i \in 1..Len(imgs) |-> imgs[Len(imgs) + 1 - i]]]
\* The joint call: all images, in submitted order (lines 223-226).
JointCallOf(imgs) == [api |-> "analyze_multiple_images", images |-> imgs]

Init ==
    /\ op \in {"analyze", "analyze_multiple"}
    /\ images \in {Images(n) : n \in 0..MaxImages}
    /\ op = "analyze" => Len(images) = 1
    /\ pc = "start"
    /\ calls = <<>>
    /\ response = NoResponse
    /\ last_single = NoSingle
    /\ error_msg = "none"
    /\ handler = "none"
    /\ acc = <<>>
    /\ results = <<>>
    /\ parser_exc = "none"
    /\ fallbacks = 0

\* analyze(image_data), lines 153-166.
Analyze ==
    /\ op = "analyze" /\ pc = "start"
    /\ \E resp \in SingleResponses :
        /\ calls' = Append(calls, SingleCall(images[1]))
        /\ last_single' = resp
        /\ results' = <<[file |-> images[1], result |-> AnalyzeResult(resp)]>>
    /\ pc' = "done"
    /\ UNCHANGED <<op, images, response, error_msg, handler, acc, parser_exc,
                   fallbacks>>

\* Mutant of AnalyzeMultipleOne: the rank is not forced to 1.
AnalyzeMultipleOne_NoRank ==
    /\ op = "analyze_multiple" /\ pc = "start" /\ Len(images) = 1
    /\ \E resp \in SingleResponses :
        /\ calls' = Append(calls, SingleCall(images[1]))
        /\ last_single' = resp
        /\ results' = <<[file |-> images[1], result |-> AnalyzeResult(resp)]>>
    /\ pc' = "done"
    /\ UNCHANGED <<op, images, response, error_msg, handler, acc, parser_exc,
                   fallbacks>>

\* analyze_multiple with one image, lines 213-218.
AnalyzeMultipleOne ==
    /\ op = "analyze_multiple" /\ pc = "start" /\ Len(images) = 1
    /\ \E resp \in SingleResponses :
        /\ calls' = Append(calls, SingleCall(images[1]))
        /\ last_single' = resp
        /\ results' =
             <<[file |-> images[1],
                result |-> [AnalyzeResult(resp) EXCEPT !.rank = IntV(1)]]>>
    /\ pc' = "done"
    /\ UNCHANGED <<op, images, response, error_msg, handler, acc, parser_exc,
                   fallbacks>>

\* The joint call of lines 220-226: it raises (the except clause of line
\* 231 starts the fallback) or returns a response to parse.
JointCallFrom(Responses) ==
    /\ op = "analyze_multiple" /\ pc = "start" /\ Len(images) # 1
    /\ calls' = Append(calls, JointCallOf(images))
    /\ \E resp \in Responses :
        IF resp.kind = "raises"
        THEN /\ pc' = "fallback"
             /\ handler' = "outer"
             /\ error_msg' = "transport"
             /\ fallbacks' = fallbacks + 1
             /\ UNCHANGED response
        ELSE /\ pc' = "parse"
             /\ response' = resp
             /\ UNCHANGED <<handler, error_msg, fallbacks>>
    /\ UNCHANGED <<op, images, last_single, acc, results, parser_exc>>
\* The joint call answered as the prompt lays out, or malformed.
JointCall == JointCallFrom(JointResponses)
\* The joint call answered with entries that carry is_metal_rod.
JointCallRod == JointCallFrom(JointRodResponses)

\* _parse_multi_response up to its return or its first exception, lines
\* 228-229 and 237-281: it returns the sorted list, or the parser's except
\* clause starts the fallback, or the exception leaves the parser and the
\* except clause of analyze_multiple starts the fallback.
ParseJoint ==
    /\ pc = "parse"
    /\ LET p == ParseMultiTry(response, images)
       IN IF p.exc = "none"
          THEN /\ results' = p.results
               /\ pc' = "done"
               /\ UNCHANGED <<response, handler, error_msg, parser_exc,
                              fallbacks>>
          ELSE /\ pc' = "fallback"
               /\ handler' = IF ParserCatches(p.exc) THEN "parser" ELSE "outer"
               /\ parser_exc' = IF ParserCatches(p.exc) THEN "none" ELSE p.exc
               /\ error_msg' = p.exc
               /\ fallbacks' = fallbacks + 1
               /\ response' = NoResponse
               /\ UNCHANGED results
    /\ UNCHANGED <<op, images, calls, last_single, acc>>

\* One iteration of the loop of lines 287-289: analyze the next image.
FallbackAnalyze ==
    /\ pc = "fallback" /\ Len(acc) < Len(images)
    /\ LET file == images[Len(acc) + 1]
       IN \E resp \in SingleResponses :
            /\ calls' = Append(calls, SingleCall(file))
            /\ last_single' = resp
            /\ acc' = Append(acc, [file |-> file, result |-> AnalyzeResult(resp)])
    /\ UNCHANGED <<op, images, pc, response, error_msg, handler, results,
                   parser_exc, fallbacks>>

\* The sort and the ranks of lines 298-304.  A TypeError of the sort leaves
\* the fallback: raised inside the parser's except clause it is caught by
\* analyze_multiple, which starts the fallback again; raised inside the
\* except clause of analyze_multiple it reaches the caller.
FallbackRank ==
    /\ pc = "fallback" /\ Len(acc) = Len(images)
    /\ IF ~SortRaises(FallbackKeys(acc))
       THEN /\ results' = FallbackRanked(acc)
            /\ pc' = "done"
            /\ UNCHANGED <<handler, error_msg, parser_exc, fallbacks>>
       ELSE IF handler = "parser"
       THEN /\ pc' = "fallback"
            /\ handler' = "outer"
            /\ parser_exc' = "TypeError"
            /\ error_msg' = "TypeError"
            /\ fallbacks' = fallbacks + 1
            /\ UNCHANGED results
       ELSE /\ pc' = "raised"
            /\ UNCHANGED <<handler, error_msg, parser_exc, fallbacks, results>>
    /\ acc' = <<>>
    /\ UNCHANGED <<op, images, calls, response, last_single>>

Next ==
    \/ Analyze
    \/ AnalyzeMultipleOne
    \/ JointCall
    \/ ParseJoint
    \/ FallbackAnalyze
    \/ FallbackRank

Spec == Init /\ [][Next]_vars

\* The same program with joint responses whose entries carry is_metal_rod.
NextRod ==
    \/ Analyze
    \/ AnalyzeMultipleOne
    \/ JointCallRod
    \/ ParseJoint
    \/ FallbackAnalyze
    \/ FallbackRank

SpecRod == Init /\ [][NextRod]_vars

\* ================================================================ claims
Returned == pc = "done"
ViaMultiple == op = "analyze_multiple"
NumImages == Len(images)
\* Whether the returned list came from the fallback or from the parser.
FellBack == fallbacks > 0
Comparative == ViaMultiple /\ NumImages # 1 /\ Returned /\ ~FellBack
IsNull(x) == x = Null
RangeOf(seq) == {seq[i] : i \in 1..Len(seq)}
Count(seq, P(_)) == Cardinality({i \in 1..Len(seq) : P(seq[i])})

\* C1: analyze_multiple never surfaces an exception to its caller, whatever
\* the vision client does and whatever values the single-image responses
\* carry.  (Stated as: the call never ends by raising.)
C1_NeverRaises == ViaMultiple => pc # "raised"

\* The failures of the single-image path: the call raises, the text is
\* not decodable, the decoded JSON is no object or has no is_metal_rod,
\* or is_metal_rod is false.
C2_FailureCase ==
    \/ last_single.kind \in {"raises", "undecodable", "nonobject"}
    \/ last_single.is_metal_rod \in {Absent, Null, BoolV(FALSE)}
\* C2: analyze never raises, and when the vision call fails, the response
\* is not decodable, the decoded JSON is not an object or lacks
\* is_metal_rod, or is_metal_rod is false, the result has is_metal_rod =
\* false and a non-null error_message.
C2_AnalyzeErrorResult ==
    op = "analyze" =>
        /\ pc \in {"start", "done"}
        /\ (Returned /\ C2_FailureCase) =>
              /\ Len(results) = 1
              /\ results[1].result.is_metal_rod = FALSE
              /\ results[1].result.error_message # MsgNone
C2_Witness ==
    /\ op = "analyze" /\ Returned
    /\ last_single.kind = "nonobject"
    /\ results[1].result.error_message = MsgAnalysisError

\* C3 (as stated): every returned result with is_metal_rod false has null
\* rust_grade, rust_score and rank and a non-null error_message.
C3_Original ==
    Returned =>
        \A i \in 1..Len(results) :
            ~results[i].result.is_metal_rod =>
                /\ IsNull(results[i].result.rust_grade)
                /\ IsNull(results[i].result.rust_score)
                /\ IsNull(results[i].result.rank)
                /\ results[i].result.error_message # MsgNone
\* C3 (amended): every returned result with is_metal_rod false has null
\* rust_grade and rust_score and a non-null error_message; its rank is null
\* when analyze returned it and is its 1-based position in the list when
\* analyze_multiple returned it.
C3_NonRodFields ==
    Returned =>
        \A i \in 1..Len(results) :
            ~results[i].result.is_metal_rod =>
                /\ IsNull(results[i].result.rust_grade)
                /\ IsNull(results[i].result.rust_score)
                /\ results[i].result.error_message # MsgNone
                /\ results[i].result.rank =
                       (IF ViaMultiple THEN IntV(i) ELSE Null)
C3_Witness ==
    /\ ViaMultiple /\ Returned /\ FellBack /\ NumImages = 2
    /\ ~results[2].result.is_metal_rod
    /\ results[2].result.rank = IntV(2)
    /\ results[1].result.is_metal_rod

\* C4: for a one-image input analyze_multiple makes exactly one
\* single-image call and no joint call, and returns the one-element list of
\* that image's identifier and its single-image result with rank 1.
C4_OneImage ==
    (ViaMultiple /\ NumImages = 1) =>
        /\ pc \in {"start", "done"}
        /\ \A i \in 1..Len(calls) : calls[i].api = "analyze_image"
        /\ Returned =>
              /\ calls = <<[api |-> "analyze_image", images |-> <<images[1]>>]>>
              /\ Len(results) = 1
              /\ results[1].file = images[1]
              /\ results[1].result.rank = IntV(1)
              /\ [results[1].result EXCEPT !.rank = Null]
                     = AnalyzeResult(last_single)
C4_Witness ==
    /\ ViaMultiple /\ NumImages = 1 /\ Returned
    /\ results[1].result.is_metal_rod
    /\ results[1].result.rust_score = IntV(1)

\* The calls of analyze_multiple for N > 1 and what a fallback returns.
C5_Calls ==
    (ViaMultiple /\ NumImages > 1) =>
        /\ pc # "start" =>
              /\ Len(calls) >= 1
              /\ calls[1].api = "analyze_multiple_images"
              /\ calls[1].images = images
        /\ \A i \in 2..Len(calls) : calls[i].api = "analyze_image"
        /\ Len(calls) > 1 => (error_msg # "none" /\ FellBack)
        /\ (Returned /\ ~FellBack) => Len(calls) = 1
        /\ (Returned /\ FellBack) =>
              /\ Len(calls) > NumImages
              /\ Len(results) = NumImages
              /\ \A i \in 1..NumImages :
                    /\ results[i].result.rank = IntV(i)
                    /\ results[i].result.error_message # MsgNone
                          <=> ~results[i].result.is_metal_rod
\* C5: for N > 1 images the joint call is made exactly once, first, with
\* all N images in submitted order; single-image calls are made only after
\* the joint call or the parsing of its response failed, and then a
\* returned list is the fallback's ranking of the collected results.
C5_JointThenFallback ==
    /\ []C5_Calls
    /\ [][(pc = "fallback" /\ pc' = "done") =>
             results' = FallbackRanked(acc)]_vars
C5_Witness ==
    /\ ViaMultiple /\ NumImages = 2 /\ Returned /\ FellBack
    /\ error_msg = "JSONDecodeError"
    /\ Len(calls) = 3

\* A well-formed array of the wrong shape: an entry that is no object, or
\* an entry with no image_index key or with one that is no integer.
C6_WrongShape(resp) ==
    /\ resp.kind = "array"
    /\ \E i \in 1..Len(resp.entries) :
          \/ resp.entries[i].kind = "nonobject"
          \/ resp.entries[i].image_index.t # "int"
\* C6 (as stated): a joint response that is well-formed JSON of the wrong
\* shape, for example an array entry with no image_index key, makes the
\* multi-image path fall back instead of returning a comparative result.
C6_WrongShapeFallsBack ==
    [][(pc = "parse" /\ NumImages > 1 /\ C6_WrongShape(response)) =>
          pc' = "fallback"]_vars

\* C7 (as stated): no exception leaves _parse_multi_response; decode and
\* structural errors end in the fallback started by the parser itself.
C7_ParserNeverRaises == parser_exc = "none"

\* An array of N object entries whose image_index values are the positions
\* 1..N and whose ranks are a permutation of 1..N.
C8_Permutation(resp) ==
    /\ resp.kind = "array"
    /\ Len(resp.entries) = NumImages
    /\ \A i \in 1..Len(resp.entries) : resp.entries[i].kind = "object"
    /\ {resp.entries[i].image_index : i \in 1..Len(resp.entries)}
           = {IntV(k) : k \in 1..NumImages}
    /\ {resp.entries[i].rank : i \in 1..Len(resp.entries)}
           = {IntV(k) : k \in 1..NumImages}
\* rs has N entries, the k-th with rank k and the identifier of the image
\* at the image_index of the entry ranked k.
C8_RankedAs(resp, rs) ==
    /\ Len(rs) = NumImages
    /\ \A k \in 1..Len(rs) :
          /\ rs[k].result.rank = IntV(k)
          /\ \E i \in 1..Len(resp.entries) :
                /\ resp.entries[i].rank = IntV(k)
                /\ rs[k].file = images[resp.entries[i].image_index.v]
\* C8: for a joint response that is an array of N entries whose
\* image_index values are the positions 1..N and whose ranks are a
\* permutation of 1..N, the parser returns exactly N entries in strictly
\* ascending rank order, each with the identifier at position image_index.
C8_PermutationSorted ==
    [][(pc = "parse" /\ C8_Permutation(response)) =>
          (pc' = "done" /\ C8_RankedAs(response, results'))]_vars
C8_Witness ==
    /\ Comparative /\ NumImages = 2 /\ C8_Permutation(response)
    /\ response.entries[1].rank = IntV(2)
    /\ results[1].file = images[2]
    /\ results[2].file = images[1]

\* An array of objects with integer image_index and no string rank.
C9_IntIndexed(resp) ==
    /\ resp.kind = "array"
    /\ \A i \in 1..Len(resp.entries) :
          /\ resp.entries[i].kind = "object"
          /\ resp.entries[i].image_index.t = "int"
          /\ resp.entries[i].rank.t # "str"
C9_IndexIs(e, k) == e.kind = "object" /\ e.image_index = IntV(k)
C9_OutOfRange(e) ==
    /\ e.kind = "object" /\ e.image_index.t = "int"
    /\ e.image_index.v \notin 1..NumImages
\* Every identifier of rs is a submitted one, every entry with an
\* image_index in 1..N has its pair in rs, and no entry with an integer
\* image_index outside 1..N has one.
C9_Kept(resp, rs) ==
    /\ \A i \in 1..Len(rs) : rs[i].file \in RangeOf(images)
    /\ \A k \in 1..NumImages :
          Cardinality({i \in 1..Len(rs) : rs[i].file = images[k]})
              >= Cardinality({i \in 1..Len(resp.entries) :
                                 C9_IndexIs(resp.entries[i], k)})
    /\ Len(rs) <= Len(resp.entries)
                    - Cardinality({i \in 1..Len(resp.entries) :
                                      C9_OutOfRange(resp.entries[i])})
\* C9: an entry whose image_index is an integer outside 1..N is dropped
\* without failing the parse, every entry whose image_index is in 1..N is
\* kept, and every returned identifier is one of the submitted images.
C9_OutOfRangeDropped ==
    /\ [](Returned => \A i \in 1..Len(results) :
                          results[i].file \in RangeOf(images))
    /\ [](Comparative => C9_Kept(response, results))
    /\ [][(pc = "parse" /\ C9_IntIndexed(response)) =>
             (pc' = "done" /\ C9_Kept(response, results'))]_vars
C9_Witness ==
    /\ Comparative /\ NumImages = 2 /\ Len(response.entries) = 2
    /\ response.entries[1].image_index = IntV(3)
    /\ response.entries[2].image_index = IntV(2)
    /\ Len(results) = 1
    /\ results[1].file = images[2]

\* In a list the fallback returns, every non-rod image comes after every
\* metal-rod image whose rust_score satisfies scoreOk.
C10_AfterRods(scoreOk(_)) ==
    (ViaMultiple /\ Returned /\ FellBack) =>
        \A i, j \in 1..Len(results) :
            (/\ results[i].result.is_metal_rod
             /\ scoreOk(results[i].result.rust_score)
             /\ ~results[j].result.is_metal_rod)
                => (i < j /\ results[i].result.rank.v < results[j].result.rank.v)
C10_AnyScore(x) == TRUE
\* C10 (as stated): in the fallback ranking every image classified as not
\* a metal rod is placed after every image classified as a metal rod,
\* whatever rust_score the latter carries.
C10_Original == C10_AfterRods(C10_AnyScore)
C10_NotNegative(x) == x.t # "int" \/ x.v >= 0
\* C10 (amended): in the fallback ranking every image classified as not a
\* metal rod is placed after every image classified as a metal rod whose
\* rust_score is missing, 0 or positive.
C10_NonRodLast == C10_AfterRods(C10_NotNegative)
C10_Witness ==
    /\ ViaMultiple /\ Returned /\ FellBack /\ NumImages = 2
    /\ results[1].file = images[2]
    /\ results[1].result.is_metal_rod
    /\ results[1].result.rust_score = Null
    /\ ~results[2].result.is_metal_rod


\* The position of an identifier in the submitted list.
C11_Submitted(file) == CHOOSE i \in 1..NumImages : images[i] = file
\* rs holds, for each submitted image exactly once, the result collected
\* for it, and the rank of each entry is its 1-based position.
C11_Listed(coll, rs) ==
    /\ Len(rs) = NumImages
    /\ Len(coll) = NumImages
    /\ \A i \in 1..NumImages :
          /\ coll[i].file = images[i]
          /\ Cardinality({p \in 1..Len(rs) : rs[p].file = images[i]}) = 1
          /\ \A p \in 1..Len(rs) :
                rs[p].file = images[i] =>
                    [rs[p].result EXCEPT !.rank = Null] = coll[i].result
    /\ \A p \in 1..Len(rs) : rs[p].result.rank = IntV(p)
\* rs is in descending order of keys (keys[p] is the key of rs[p]), equal
\* keys in submitted order.
C11_Ordered(rs, keys) ==
    \A p, q \in 1..Len(rs) :
        p < q =>
            \/ keys[p] > keys[q]
            \/ /\ keys[p] = keys[q]
               /\ C11_Submitted(rs[p].file) < C11_Submitted(rs[q].file)
\* Every result the fallback collects is the single-image result of the
\* next submitted image.
C11_Collects ==
    (pc = "fallback" /\ Len(acc') = Len(acc) + 1) =>
        acc' = Append(acc, [file |-> images[Len(acc) + 1],
                            result |-> AnalyzeResult(last_single')])
\* The step that returns the list of a fallback started by a failed joint
\* call.
C11_Returns == pc = "fallback" /\ error_msg = "transport" /\ pc' = "done"
\* rust_score as a number, a missing score counted as 0.
C11_Score(r) ==
    IF r.rust_score.t \in {"int", "str"} THEN r.rust_score.v ELSE 0
\* The same for a metal rod, and -1 for an image that is not one.
C11_RodScore(r) == IF r.is_metal_rod THEN C11_Score(r) ELSE 0 - 1
C11_Scores(rs) == [p \in 1..Len(rs) |-> C11_Score(rs[p].result)]
C11_RodScores(rs) == [p \in 1..Len(rs) |-> C11_RodScore(rs[p].result)]
\* C11 (as stated): when the joint call fails, the returned list holds the
\* single-image result of each of the N images exactly once, ordered by
\* descending rust_score (a missing score counted as 0), equal scores in
\* submitted order, with rank equal to the 1-based position.
C11_Original ==
    /\ [][C11_Collects]_vars
    /\ [][C11_Returns =>
             /\ C11_Listed(acc, results')
             /\ C11_Ordered(results', C11_Scores(results'))]_vars
\* C11 (amended): when the joint call fails, a list that analyze_multiple
\* returns holds the single-image result of each of the N images exactly
\* once, ordered by descending sort key (-1 for an image that is not a
\* metal rod, else rust_score with a missing score counted as 0), equal
\* keys in submitted order, with rank equal to the 1-based position.
C11_FallbackOrder ==
    /\ [][C11_Collects]_vars
    /\ [][C11_Returns =>
             /\ C11_Listed(acc, results')
             /\ C11_Ordered(results', C11_RodScores(results'))]_vars
C11_Witness ==
    /\ ViaMultiple /\ Returned /\ NumImages = 2 /\ error_msg = "transport"
    /\ results[1].file = images[2]
    /\ results[1].result.rust_score = IntV(1)
    /\ results[2].result.is_metal_rod
    /\ results[2].result.rust_score = Null


\* C12: _parse_single_response returns is_metal_rod = true only when the
\* decoded object carries an is_metal_rod field that is the boolean true;
\* for every other value of the field, and when it is absent, the result
\* has is_metal_rod = false, the classification-failure message and no
\* grade or score.
C12_OnlyBooleanTrue ==
    (Returned /\ NumImages = 1 /\ last_single.kind = "object") =>
        /\ results[1].result.is_metal_rod =>
              last_single.is_metal_rod = BoolV(TRUE)
        /\ last_single.is_metal_rod # BoolV(TRUE) =>
              /\ ~results[1].result.is_metal_rod
              /\ results[1].result.error_message = MsgNotRod
              /\ IsNull(results[1].result.rust_grade)
              /\ IsNull(results[1].result.rust_score)


\* C13: within one analyze_multiple call for N > 1 images the fallback
\* performs the single-image operation once per submitted image, in
\* submitted order, so the batch makes at most one joint call followed by
\* N single-image calls, whichever failure started the fallback.
C13_OncePerImage ==
    (ViaMultiple /\ NumImages > 1) =>
        /\ Len(calls) <= 1 + NumImages
        /\ \A k \in 2..Len(calls) :
              k - 1 <= NumImages => calls[k] = SingleCall(images[k - 1])


\* The list the parser returned is ascending by rank, the entries with no
\* rank last, provided every rank the response carries is in Ranks.
C14_SortedFor(Ranks) ==
    (/\ Comparative
     /\ \A i \in 1..Len(results) : results[i].result.rank \in Ranks \cup {Null})
    => \A p, q \in 1..Len(results) :
          p < q =>
              /\ IsNull(results[p].result.rank) => IsNull(results[q].result.rank)
              /\ (~IsNull(results[p].result.rank) /\ ~IsNull(results[q].result.rank))
                    => results[p].result.rank.v <= results[q].result.rank.v
\* C14 (as stated): the list returned by _parse_multi_response is ascending
\* by rank, every entry with a rank before every entry without one, for any
\* integer rank values.
C14_Original == C14_SortedFor({IntV(k) : k \in 0..(MissingRankKey + 1)})
\* C14 (amended): the list returned by _parse_multi_response is ascending
\* by rank, every entry with a rank before every entry without one, for
\* integer ranks from 1 to 998; a rank of 0 is sorted as if missing (key
\* 999) and a rank above 999 after the entries without a rank.
C14_SortedByRank == C14_SortedFor({IntV(k) : k \in 1..(MissingRankKey - 1)})
C14_Witness ==
    /\ Comparative /\ Len(results) = 2
    /\ response.entries[1].rank = Absent
    /\ response.entries[2].rank = IntV(2)
    /\ results[1].result.rank = IntV(2)
    /\ IsNull(results[2].result.rank)


\* Two results agree on every field but rank.
C15_SameButRank(a, b) ==
    /\ a.is_metal_rod = b.is_metal_rod
    /\ a.rust_grade = b.rust_grade
    /\ a.rust_score = b.rust_score
    /\ a.error_message = b.error_message
\* C15: after the single-image path has constructed a result, the only
\* field analyze_multiple (one image) or the fallback (collecting, sorting
\* and ranking) changes is rank; is_metal_rod, the grade, the score and
\* error_message are as the single-image path left them.
C15_OnlyRankChanges ==
    /\ []((ViaMultiple /\ Returned /\ NumImages = 1) =>
             C15_SameButRank(results[1].result, AnalyzeResult(last_single)))
    /\ [][(pc = "fallback" /\ Len(acc') > Len(acc)) =>
             SubSeq(acc', 1, Len(acc)) = acc]_vars
    /\ [][(pc = "fallback" /\ pc' = "done") =>
             /\ Len(results') = Len(acc)
             /\ \A p \in 1..Len(results') :
                   \E i \in 1..Len(acc) :
                       /\ acc[i].file = results'[p].file
                       /\ C15_SameButRank(results'[p].result, acc[i].result)]_vars
C15_Witness ==
    /\ ViaMultiple /\ Returned /\ FellBack /\ NumImages = 2
    /\ results[1].result.rank = IntV(1)
    /\ results[1].result.rust_score = IntV(1)
    /\ results[1].result.rust_grade = StrV
    /\ results[2].result.rank = IntV(2)
    /\ results[2].result.error_message = MsgAnalysisError


\* C16: every result of the comparative path (the parser's list, returned
\* without fallback) has is_metal_rod = true and a null error_message,
\* whatever is_metal_rod the array entry carries; a result with
\* is_metal_rod = false in the output of analyze_multiple for N # 1 images
\* comes from the fallback.
C16_ComparativeAlwaysRod ==
    /\ Comparative =>
          \A i \in 1..Len(results) :
              /\ results[i].result.is_metal_rod = TRUE
              /\ results[i].result.error_message = MsgNone
    /\ (/\ ViaMultiple /\ NumImages # 1 /\ Returned
        /\ \E i \in 1..Len(results) : ~results[i].result.is_metal_rod)
       => FellBack
C16_Witness ==
    /\ Comparative /\ Len(results) = 2
    /\ response.entries[1].is_metal_rod = BoolV(FALSE)
    /\ response.entries[1].image_index = IntV(1)
    /\ response.entries[2].is_metal_rod = BoolV(TRUE)
    /\ results[1].file = images[1]
    /\ results[1].result.is_metal_rod
    /\ results[1].result.error_message = MsgNone

====
